---------------------------- MODULE Spec2Model ----------------------------
(***************************************************************************)
(* Sweep controllers (controllers/laser_sweep.py,                          *)
(* controllers/sourcemeter_sweep.py) driving the Keithley 2400 source      *)
(* meter and the Agilent 8163 laser / power-meter mainframe                *)
(* (instruments/keithley2400.py, instruments/agilent8163.py).              *)
(*                                                                         *)
(* One sweep invocation is a state machine: the position in the function   *)
(* body is pc, every driver method call and every SCPI command it sends is *)
(* appended to trace, and a transport fault (visa.VisaIOError) may be      *)
(* injected at any write or query.  Stimulus values are scaled integers,   *)
(* so numpy.arange is computed exactly (no floating-point rounding).       *)
(*                                                                         *)
(* A second state machine (SpecDriver) covers the life of the driver       *)
(* objects themselves: construction, direct method calls and close(),      *)
(* with the resource manager either created by the driver or injected and  *)
(* shared.                                                                 *)
(***************************************************************************)
EXTENDS Integers, Sequences, FiniteSets

VARIABLES
    connected,  \* connected[inst]: the driver's `connected` flag
    output,     \* output[inst]: source output (Keithley) / laser emission (Agilent) is on
    pc,         \* position in the sweep function
    variant,    \* which sweep function was called
    args,       \* its arguments
    ip,         \* index of the next call inside the initialize block / the loop body
    grid,       \* the array built by np.arange
    idx,        \* 1-based position of the for loop in grid
    reads,      \* values returned by the measuring calls at the current grid point
    results,    \* the `results` list
    exc,        \* exception propagating out of the try body (NoExc if none)
    ret,        \* value of the `return` statement reached in the try body
    outcome,    \* what the caller of the sweep finally receives
    trace,      \* driver calls, transmitted commands, sleeps and faults, in time order
    main,       \* main[inst]: self.main is "None", an "open" handle or a "closed" one
    rm,         \* rm[inst]: the resource manager self.rm refers to ("None" before __init__)
    owns_rm,    \* owns_rm[inst]: self._owns_rm
    rmOpen,     \* rmOpen[m]: resource manager m has not been closed
    life,       \* life[inst]: "absent", "constructed", "failed" (__init__ raised), "closed"
    last,       \* the most recent call made directly on a driver object
    runs,       \* number of sweeps the caller has run to the end so far
    file,       \* data/raw/<filename>.csv: NoFile or its lines, each a sequence of characters
    saved,      \* what save_raw_measurements returned ("None" before it is called)
    parsed      \* the table read back from the file

driverVars == <<main, rm, owns_rm, rmOpen, life, last>>

sweepData == <<variant, args, ip, grid, idx, reads, results, exc, ret, outcome, runs>>

csvVars == <<file, saved, parsed>>

vars == <<connected, output, pc, variant, args, ip, grid, idx, reads, results,
          exc, ret, outcome, trace, main, rm, owns_rm, rmOpen, life, last, runs,
          file, saved, parsed>>

----------------------------------------------------------------------------
(* Bounds of the model *)

MaxVal == 2
MaxNeg == 1
MaxStep == 3

Vals == (0 - MaxNeg)..MaxVal
Steps == (0 - MaxStep)..MaxStep

\* Largest endpoint of the sweeps over ranges away from zero
MaxWide == 3

WideVals == 0..MaxWide

----------------------------------------------------------------------------
(* Instruments and sweep variants *)

Insts == {"sourcemeter", "powermeter", "laser"}

Variants == {"perform_laser_sweep", "measure_iv_curve", "measure_liv_curve",
             "measure_laser_liv_curve_by_source_current"}

LIVVariants == {"measure_liv_curve", "measure_laser_liv_curve_by_source_current"}

\* The concrete driver class behind each instrument argument.
DriverOf(inst) == IF inst = "sourcemeter" THEN "Keithley2400SourceMeter"
                  ELSE "Agilent8163Multimeter"

\* The instrument the finally block turns off.
Primary(v) == IF v = "perform_laser_sweep" THEN "laser" ELSE "sourcemeter"

CenterWavelength == 1550

WireModes == {2, 4, 3}

----------------------------------------------------------------------------
(* Exceptions *)

NoExc == [type |-> "None", msg |-> "", at |-> 0, by |-> ""]

Exc(type, msg) == [type |-> type, msg |-> msg, at |-> 0, by |-> ""]

\* An exception object: e raised by the function `by` when the trace had n
\* entries.  Two raises are the same object iff they happened at the same point.
RaisedAt(e, n, by) == IF e = NoExc THEN NoExc ELSE [e EXCEPT !.at = n, !.by = by]

VisaIOError == Exc("VisaIOError", "transport")


----------------------------------------------------------------------------
(* Driver command scripts.  A script is the sequence of transport steps a  *)
(* driver method performs after its `connected` check: "write" and "query" *)
(* go to self.main, "sleep" is time.sleep, "raise" is a raise statement.   *)

Write(cmd, a) == [kind |-> "write", name |-> cmd, arg |-> a]
Query(cmd) == [kind |-> "query", name |-> cmd, arg |-> 0]
Sleep(which) == [kind |-> "sleep", name |-> which, arg |-> 0]
Raise(msg) == [kind |-> "raise", name |-> msg, arg |-> 0]
\* a call of another method of the same object
SubCall(op) == [kind |-> "call", name |-> op, arg |-> 0]

Keithley_initialize(wire_mode) ==
    << Write("*CLS", 0), Write("*RST", 0), Write(":OUTP OFF", 0) >>
    \o (IF wire_mode = 2 THEN << Write(":SYST:RSEN OFF", 0) >>
        ELSE IF wire_mode = 4 THEN << Write(":SYST:RSEN ON", 0) >>
        ELSE << Raise("Invalid wire mode. Use 2 for 2-wire or 4 for 4-wire mode.") >>)

\* The voltage source-and-read with the output switched off after the read.
Keithley_source_voltage_read_and_disable(level, range) ==
    << Write(":SOUR:FUNC VOLT", 0),
       Write(":SOUR:VOLT:MODE FIXED", 0),
       Write(":SOUR:VOLT:RANG", range),
       Write(":SOUR:VOLT:LEV", level),
       Write(":SENS:CURR:PROT", 0),
       Write(":SENS:FUNC 'CURR'", 0),
       Write(":SENS:CURR:RANG", 0),
       Write(":FORM:ELEM CURR", 0),
       Write(":OUTP ON", 0),
       Sleep("delay"),
       Query(":READ?"),
       Write(":OUTP OFF", 0) >>

Keithley_source_voltage_and_read_current(level, range) ==
    << Write(":SOUR:FUNC VOLT", 0),
       Write(":SOUR:VOLT:MODE FIXED", 0),
       Write(":SOUR:VOLT:RANG", range),
       Write(":SOUR:VOLT:LEV", level),
       Write(":SENS:CURR:PROT", 0),
       Write(":SENS:FUNC 'CURR'", 0),
       Write(":SENS:CURR:RANG", 0),
       Write(":FORM:ELEM CURR", 0),
       Write(":OUTP ON", 0),
       Sleep("delay"),
       Query(":READ?") >>

Keithley_source_current_and_read_voltage(level, range) ==
    << Write(":SOUR:FUNC CURR", 0),
       Write(":SOUR:CURR:MODE FIXED", 0),
       Write(":SENS:FUNC 'VOLT'", 0),
       Write(":SOUR:CURR:RANG", range),
       Write(":SOUR:CURR:LEV", level),
       Write(":SENS:VOLT:PROT", 0),
       Write(":SENS:VOLT:RANG", 0),
       Write(":FORM:ELEM VOLT", 0),
       Write(":OUTP ON", 0),
       Sleep("delay"),
       Query(":READ?") >>

Keithley_turn_off == << Write(":OUTP OFF", 0) >>

Keithley_read_resistance_auto ==
    << Write(":SOUR:FUNC VOLT", 0),
       Write(":SOUR:VOLT 0.1", 0),
       Write(":SENS:FUNC \"RES\"", 0),
       Write(":SENS:RES:MODE AUTO", 0),
       Write(":SENS:RES:RANG", 0),
       Write(":FORM:ELEM RES", 0),
       Write(":OUTP ON", 0),
       Query(":READ?"),
       Write(":OUTP OFF", 0) >>

\* mode == "AUTO" hands over to read_resistance_auto; otherwise the writes
\* depend on source_func.upper(), and wire_mode is only looked at in the
\* voltage branch.
Keithley_read_resistance_configured(mode, source_func, wire_mode) ==
    IF mode = "AUTO"
    THEN << SubCall("read_resistance_auto") >> \o Keithley_read_resistance_auto
    ELSE << Write(":SENS:RES:RANG", 0),
            Write(":SENS:RES:MODE", 0),
            Write(":SENS:RES:OCOM", 0),
            Write(":SENS:VOLT:PROT", 0),
            Write(":SENS:CURR:PROT", 0),
            Write(":SOUR:FUNC", 0) >>
         \o (IF source_func = "VOLT"
             THEN << Write(":SOUR:VOLT", 0),
                     IF wire_mode = 4 THEN Write(":SYST:RSEN ON", 0)
                     ELSE Write(":SYST:RSEN OFF", 0) >>
             ELSE IF source_func = "CURR"
             THEN << Write(":SOUR:FUNC CURR", 0),
                     Write(":SOUR:CURR:RANGE", 0),
                     Write(":SOUR:CURR", 0) >>
             ELSE << >>)
         \o << Write(":FORM:ELEM RES", 0),
                Write(":OUTP ON", 0),
                Sleep("delay"),
                Query(":READ?"),
                Write(":OUTP OFF", 0) >>

\* SCPIInstrument.write(command) and .query(command), inherited by both drivers
SCPIInstrument_write(command) == << Write(command, 0) >>

SCPIInstrument_query(command) == << Query(command) >>

Agilent_initialize == << Write("*CLS", 0), Write("sour1:pow:stat 1", 0) >>

Agilent_set_wavelength(wavelength) == << Write("sour1:wav NM", wavelength) >>

Agilent_measure_power == << Query("fetch2:chan1:pow?") >>

Agilent_turn_off == << Write("sour1:pow:stat 0", 0) >>

\* A driver method call: c.inst is the object (instrument argument) it is made
\* on, c.arg and c.arg2 its numeric arguments, c.mode and c.func the keyword
\* arguments mode and source_func of read_resistance_configured, c.cmd the
\* command text given to write / query.
ResistanceCall(inst, wire_mode, mode, source_func) ==
    [inst |-> inst, op |-> "read_resistance_configured", arg |-> wire_mode, arg2 |-> 0,
     mode |-> mode, func |-> source_func, cmd |-> ""]

AdapterCall(inst, op, command) ==
    [inst |-> inst, op |-> op, arg |-> 0, arg2 |-> 0, mode |-> "", func |-> "",
     cmd |-> command]

MethodCall(inst, op, a, b) ==
    [inst |-> inst, op |-> op, arg |-> a, arg2 |-> b, mode |-> "", func |-> "",
     cmd |-> ""]

DriverScript(c) ==
    IF DriverOf(c.inst) = "Keithley2400SourceMeter"
    THEN CASE c.op = "initialize" -> Keithley_initialize(c.arg)
           [] c.op = "source_voltage_and_read_current"
                -> Keithley_source_voltage_and_read_current(c.arg, c.arg2)
           [] c.op = "source_current_and_read_voltage"
                -> Keithley_source_current_and_read_voltage(c.arg, c.arg2)
           [] c.op = "turn_off" -> Keithley_turn_off
           [] c.op = "read_resistance_auto" -> Keithley_read_resistance_auto
           [] c.op = "read_resistance_configured"
                -> Keithley_read_resistance_configured(c.mode, c.func, c.arg)
           [] c.op = "write" -> SCPIInstrument_write(c.cmd)
           [] c.op = "query" -> SCPIInstrument_query(c.cmd)
    ELSE CASE c.op = "initialize" -> Agilent_initialize
           [] c.op = "set_wavelength" -> Agilent_set_wavelength(c.arg)
           [] c.op = "measure_power" -> Agilent_measure_power
           [] c.op = "turn_off" -> Agilent_turn_off
           [] c.op = "write" -> SCPIInstrument_write(c.cmd)
           [] c.op = "query" -> SCPIInstrument_query(c.cmd)

\* The RuntimeError each method raises when self.connected is false.
NotConnectedError(c) ==
    IF DriverOf(c.inst) = "Keithley2400SourceMeter"
    THEN IF c.op = "initialize"
         THEN Exc("RuntimeError", "Cannot initialize: Instrument not connected.")
         ELSE Exc("RuntimeError", "Instrument not connected.")
    ELSE CASE c.op = "initialize"
                -> Exc("RuntimeError", "Cannot initialize: Instrument not connected.")
           [] c.op = "set_wavelength"
                -> Exc("RuntimeError", "Cannot set wavelength: Instrument not connected.")
           [] c.op = "measure_power"
                -> Exc("RuntimeError", "Cannot measure power: Instrument not connected.")
           [] c.op = "turn_off"
                -> Exc("RuntimeError", "Cannot turn off laser: Instrument not connected.")
           [] c.op \in {"write", "query"}
                -> Exc("RuntimeError", "Instrument not connected.")

\* try/except inside a driver method: Keithley turn_off catches and logs a
\* VisaIOError of its write; Agilent turn_off has no handler.
CaughtInMethod(c, e) ==
    /\ DriverOf(c.inst) = "Keithley2400SourceMeter"
    /\ c.op = "turn_off"
    /\ e.type = "VisaIOError"

----------------------------------------------------------------------------
(* Responses and their parsing *)

\* A response is the text read back, given as its comma-separated fields.
NumericFields == {"3", "5", "7"}

FloatOf(s) == CASE s = "3" -> 3 [] s = "5" -> 5 [] s = "7" -> 7

SourceMeterResponses == { << "5" >>, << "5", "", "7" >>, << "x" >> }

PowerResponses == { << "3" >>, << "x" >> }

Responses(c) ==
    IF c.op \in {"source_voltage_and_read_current", "source_current_and_read_voltage",
                 "read_resistance_auto", "read_resistance_configured"}
    THEN SourceMeterResponses
    ELSE IF c.op = "measure_power" THEN PowerResponses
    ELSE IF c.op = "query" THEN { << "x" >> }
    ELSE { << >> }

\* [float(val) for val in response.strip().split(',') if val]
NonEmptyFields(resp) == SelectSeq(resp, LAMBDA f : f # "")

ParsesAsFloats(resp) == \A i \in 1..Len(resp) : resp[i] = "" \/ resp[i] \in NumericFields

FloatList(resp) ==
    LET fs == NonEmptyFields(resp) IN [i \in 1..Len(fs) |-> FloatOf(fs[i])]

\* float(response) on the whole text
ParsesAsFloat(resp) == Len(resp) = 1 /\ resp[1] \in NumericFields

\* np.nan, a float that no response text converts to
NaN == 0 - 1

\* The quantity a source-and-read script asks the instrument to return.
FormatElement(script) ==
    IF \E i \in 1..Len(script) : script[i].name = ":FORM:ELEM CURR" THEN "Current"
    ELSE IF \E i \in 1..Len(script) : script[i].name = ":FORM:ELEM VOLT" THEN "Voltage"
    ELSE IF \E i \in 1..Len(script) : script[i].name = ":FORM:ELEM RES" THEN "Resistance"
    ELSE "None"

\* A read_resistance_configured that never hands over to read_resistance_auto.
ParsesLikeAutoOnlyAuto(c) == c.op = "read_resistance_auto"

\* read_resistance_configured parses the response itself unless it handed
\* over to read_resistance_auto.
ParsesLikeAuto(c) ==
    \/ c.op = "read_resistance_auto"
    \/ c.op = "read_resistance_configured" /\ c.mode = "AUTO"

\* A value held by the controller: what it measures (q), where it came from
\* ("grid" or the instrument argument that returned it) and the number(s).
Field(q, from, v) == [q |-> q, from |-> from, v |-> v]

\* Exception raised while converting the response (NoExc if it converts).
ParseError(c, resp) ==
    CASE c.op \in {"source_voltage_and_read_current", "source_current_and_read_voltage"}
           -> IF ParsesAsFloats(resp) THEN NoExc
              ELSE Exc("ValueError", "could not convert string to float")
      [] ParsesLikeAuto(c)
           -> IF ParsesAsFloats(resp) THEN NoExc
              ELSE Exc("ValueError", "Could not parse resistance value from")
      [] c.op = "measure_power"
           -> IF ParsesAsFloat(resp) THEN NoExc
              ELSE Exc("RuntimeError", "Invalid power reading")
      [] OTHER -> NoExc

\* The values a successful call hands back to the sweep (<< >> for None).
ReturnValue(c, resp) ==
    CASE c.op \in {"source_voltage_and_read_current", "source_current_and_read_voltage"}
           -> << Field(FormatElement(DriverScript(c)), c.inst, FloatList(resp)) >>
      [] ParsesLikeAuto(c)
           -> << Field(FormatElement(DriverScript(c)), c.inst, FloatList(resp)) >>
      [] c.op = "read_resistance_configured" /\ c.mode # "AUTO"
           -> << Field(FormatElement(DriverScript(c)), c.inst,
                       IF ParsesAsFloat(resp) THEN << FloatOf(resp[1]) >> ELSE << NaN >>) >>
      [] c.op = "measure_power"
           -> << Field("Power", c.inst, FloatOf(resp[1])) >>
      [] c.op = "query"
           -> << Field("Response", c.inst, << >>) >>
      [] OTHER -> << >>

----------------------------------------------------------------------------
(* Executing one driver method call *)

Event(kind, inst, name, a) == [kind |-> kind, inst |-> inst, name |-> name, arg |-> a]

CallEvent(c) == Event("call", c.inst, c.op, c.arg)

\* Numbers of script steps that can complete before the method stops: all of
\* them, or any prefix ending before a write/query that faults or before a raise.
ValidStops(script) ==
    { k \in 0..Len(script) :
        /\ \A j \in 1..k : script[j].kind # "raise"
        /\ k < Len(script) => script[k + 1].kind \notin {"sleep", "call"} }

\* Exception that ends the script after k completed steps, before any handler.
StopError(c, script, k, resp) ==
    IF k < Len(script)
    THEN IF script[k + 1].kind = "raise" THEN Exc("ValueError", script[k + 1].name)
         ELSE VisaIOError
    ELSE ParseError(c, resp)

\* What the call appends to the trace: the call, the steps completed, and the
\* write/query that faulted, if one did.
CallEvents(c, script, k) ==
    << CallEvent(c) >>
    \o [i \in 1..k |-> Event(script[i].kind, c.inst, script[i].name, script[i].arg)]
    \o (IF k < Len(script) /\ script[k + 1].kind # "raise"
        THEN << Event("fault", c.inst, script[k + 1].name, script[k + 1].arg) >>
        ELSE << >>)

\* A connected check that lets turn_off through.
FailsConnectedCheckExceptTurnOff(c) == c.op # "turn_off" /\ ~connected[c.inst]

\* The check that opens every method: `if not self.connected`, and for the
\* inherited write / query `if not self.connected or self.main is None`.
FailsConnectedCheck(c) ==
    \/ ~connected[c.inst]
    \/ c.op \in {"write", "query"} /\ main[c.inst] = "None"

\* Every way the call can end: the events it adds, the exception it raises
\* (NoExc if it returns), the value it returns, and the response text it
\* converted (<< >> if it stopped before converting one).
CallOutcomes(c) ==
    IF FailsConnectedCheck(c)
    THEN { [events |-> << CallEvent(c) >>, exc |-> NotConnectedError(c), val |-> << >>,
            resp |-> << >>] }
    ELSE LET script == DriverScript(c) IN
         { LET e == StopError(c, script, k, resp)
               raised == IF CaughtInMethod(c, e) THEN NoExc ELSE e
           IN  [events |-> CallEvents(c, script, k),
                exc |-> raised,
                val |-> IF e = NoExc THEN ReturnValue(c, resp) ELSE << >>,
                resp |-> IF k = Len(script) THEN resp ELSE << >>]
           : k \in ValidStops(script), resp \in Responses(c) }

\* Effect of transmitted commands on the instrument's output / emission.
SwitchesOn(ev) == ev.kind = "write" /\ ev.name \in {":OUTP ON", "sour1:pow:stat 1"}

SwitchesOff(ev) == ev.kind = "write" /\ ev.name \in {":OUTP OFF", "*RST", "sour1:pow:stat 0"}

OutputAfter(inst, cur, events) ==
    LET sw == { i \in 1..Len(events) :
                  events[i].inst = inst /\ (SwitchesOn(events[i]) \/ SwitchesOff(events[i])) }
    IN  IF sw = {} THEN cur
        ELSE SwitchesOn(events[CHOOSE i \in sw : \A j \in sw : j <= i])

----------------------------------------------------------------------------
(* numpy.arange over scaled integers *)

\* ceil(a / b) for b # 0
CeilDiv(a, b) == IF b > 0 THEN 0 - ((0 - a) \div b) ELSE 0 - (a \div (0 - b))

Abs(x) == IF x < 0 THEN 0 - x ELSE x

\* np.arange(start, stop2 / 2, step): max(0, ceil((stop - start) / step)) values
\* start + i*step.  The exclusive stop is given doubled so that half steps stay
\* integers.
Arange(start, stop2, step) ==
    LET n == CeilDiv(stop2 - 2 * start, 2 * step)
        len == IF n > 0 THEN n ELSE 0
    IN  [i \in 1..len |-> start + (i - 1) * step]

\* The exclusive stop each sweep passes to np.arange (doubled).
ArangeStop2(v, a) ==
    IF v = "perform_laser_sweep" THEN 2 * a.stop + a.step
    ELSE 2 * (a.stop + a.step)

SweepGrid(v, a) == Arange(a.start, ArangeStop2(v, a), a.step)

\* range argument of the source-and-read calls
SourceRange(a) == Abs(a.stop - a.start) + Abs(a.step)

----------------------------------------------------------------------------
(* The body of each sweep function *)

\* The `if not x.connected: raise RuntimeError(...)` lines, in order.
ConnectedChecks(v) ==
    LET sm == [inst |-> "sourcemeter",
               msg |-> "Cannot perform sweep: Instrument not connected."]
        pm == [inst |-> "powermeter",
               msg |-> "Cannot perform sweep: Power meter not connected."]
        la == [inst |-> "laser",
               msg |-> "Cannot perform sweep: Laser not connected."]
    IN  CASE v = "perform_laser_sweep" -> << >>
          [] v = "measure_iv_curve" -> << sm >>
          [] v = "measure_liv_curve" -> << sm, pm, la >>
          [] v = "measure_laser_liv_curve_by_source_current" -> << sm, pm >>

\* The driver calls made between the checks and np.arange, in order.
InitCalls(v, a) ==
    CASE v = "perform_laser_sweep"
           -> << MethodCall("laser", "initialize", 0, 0) >>
      [] v = "measure_iv_curve"
           -> << MethodCall("sourcemeter", "initialize", a.wire_mode, 0) >>
      [] v = "measure_liv_curve"
           -> << MethodCall("sourcemeter", "initialize", a.wire_mode, 0),
                 MethodCall("laser", "initialize", 0, 0),
                 MethodCall("laser", "set_wavelength", CenterWavelength, 0) >>
      [] v = "measure_laser_liv_curve_by_source_current"
           -> << MethodCall("sourcemeter", "initialize", a.wire_mode, 0),
                 MethodCall("powermeter", "initialize", 0, 0) >>

\* The driver calls made at grid value g, in order.
PointCalls(v, a, g) ==
    CASE v = "perform_laser_sweep"
           -> << MethodCall("laser", "set_wavelength", g, 0),
                 MethodCall("laser", "measure_power", 0, 0) >>
      [] v = "measure_iv_curve"
           -> << MethodCall("sourcemeter", "source_voltage_and_read_current",
                            g, SourceRange(a)) >>
      [] v = "measure_liv_curve"
           -> << MethodCall("sourcemeter", "source_voltage_and_read_current",
                            g, SourceRange(a)),
                 MethodCall("powermeter", "measure_power", 0, 0) >>
      [] v = "measure_laser_liv_curve_by_source_current"
           -> << MethodCall("sourcemeter", "source_current_and_read_voltage",
                            g, SourceRange(a)),
                 MethodCall("powermeter", "measure_power", 0, 0) >>

\* The LIV loop without its inter-instrument delay.
SleepBeforeCallNever(v, i) == << >>

\* time.sleep calls of the sweep function itself
SleepBeforeCall(v, i) ==
    IF v \in LIVVariants /\ i = 2
    THEN << Event("sleep", "controller", "powermeter_delay", 0) >>
    ELSE << >>

SleepAfterAppend(v) ==
    IF v = "perform_laser_sweep"
    THEN << Event("sleep", "controller", "delay", 0) >>
    ELSE << >>

\* The quantity the grid sweeps.
StimulusQuantity(v) ==
    CASE v = "perform_laser_sweep" -> "Wavelength"
      [] v = "measure_laser_liv_curve_by_source_current" -> "Current"
      [] OTHER -> "Voltage"

Headers(v) ==
    CASE v = "perform_laser_sweep" -> << "Wavelength (nm)", "Power (dBm)" >>
      [] v = "measure_iv_curve" -> << "Voltage (V)", "Current (A)" >>
      [] OTHER -> << "Voltage (V)", "Current (A)", "Optical Power (dBm)" >>

\* Variant of Row: the current-driven sweep also puts the stimulus first.
RowStimulusFirstEverywhere(v, g, r) ==
    LET stim == Field(StimulusQuantity(v), "grid", g) IN
    IF v \in LIVVariants THEN << stim, r[1], r[2] >> ELSE << stim, r[1] >>

\* Variant of Row: the IV sweep appends (read_current, v).
RowResponseFirstInIV(v, g, r) ==
    LET stim == Field(StimulusQuantity(v), "grid", g) IN
    CASE v = "perform_laser_sweep" -> << stim, r[1] >>
      [] v = "measure_iv_curve" -> << r[1], stim >>
      [] v = "measure_liv_curve" -> << stim, r[1], r[2] >>
      [] v = "measure_laser_liv_curve_by_source_current" -> << r[1], stim, r[2] >>

\* The tuple appended to results; r holds the values read at this point.
Row(v, g, r) ==
    LET stim == Field(StimulusQuantity(v), "grid", g) IN
    CASE v = "perform_laser_sweep" -> << stim, r[1] >>
      [] v = "measure_iv_curve" -> << stim, r[1] >>
      [] v = "measure_liv_curve" -> << stim, r[1], r[2] >>
      [] v = "measure_laser_liv_curve_by_source_current" -> << r[1], stim, r[2] >>

\* logger.info(f"... {read_current:.3f} ..."): the source-meter reads are
\* numpy arrays, which reject a format spec; the laser sweep formats floats.
LogError(v, a) ==
    IF a.logger /\ v # "perform_laser_sweep"
    THEN Exc("TypeError", "unsupported format string passed to numpy.ndarray.__format__")
    ELSE NoExc

\* np.arange with step = 0 fails; which exception depends on the numpy build
\* and on the argument types.
ArangeErrors ==
    { Exc("ZeroDivisionError", "division by zero"),
      Exc("ValueError", "Maximum allowed size exceeded") }

\* Variant of LoopValue: the grid is walked from its far end.
LoopValueReversed(g, i) == g[Len(g) + 1 - i]

\* for v in grid: the value of the loop variable in iteration i
LoopValue(g, i) == g[i]

\* A raise that leaves the function without running the finally block.
AfterRaiseSkipsFinally(p) == "done"

\* Variant of AfterRaise: the connected checks stand before the try block.
AfterRaiseChecksOutsideTry(p) == IF p = "check" THEN "done" ELSE "finally"

\* Where control goes when the statement at position p of the sweep raises:
\* the whole body, the connected checks included, is inside try ... finally.
AfterRaise(p) == "finally"

NoTable == [headers |-> << >>, rows |-> << >>]

\* No file has been written under data/raw.
NoFile == [exists |-> FALSE, lines |-> << >>]

\* Nothing has been read back yet.
NoParse == [found |-> FALSE, headers |-> << >>, rows |-> << >>]

NoArgs == [start |-> 0, stop |-> 0, step |-> 0, wire_mode |-> 2, logger |-> FALSE]

ArgSets(v) ==
    [start : Vals, stop : Vals, step : Steps,
     wire_mode : IF v = "perform_laser_sweep" THEN {2} ELSE WireModes,
     logger : BOOLEAN]

----------------------------------------------------------------------------
(* Driver objects: construction and close *)

\* One object of each driver class is followed through its life.
Drivers == {"sourcemeter", "laser"}

\* The resource manager handed to the constructors by the application, and
\* the one each constructor creates when it is handed none.
OwnRM(d) == CASE d = "sourcemeter" -> "rm_sourcemeter"
              [] d = "powermeter" -> "rm_powermeter"
              [] d = "laser" -> "rm_laser"

ResourceManagers == {"injected"} \cup { OwnRM(d) : d \in Insts }

\* A driver that treats every resource manager as its own.
OwnsRmAlways(injected) == TRUE

\* self._owns_rm = resource_manager is None
OwnsRm(injected) == ~injected

\* The fields of the driver objects and what they hold on to.
Snapshot ==
    [connected |-> connected, main |-> main, rm |-> rm, owns_rm |-> owns_rm,
     rmOpen |-> rmOpen, life |-> life, output |-> output]

NoCall ==
    [inst |-> "none", op |-> "none", arg |-> 0, mode |-> "", func |-> "",
     exc |-> NoExc, val |-> << >>, resp |-> << >>,
     was |-> [connected |-> [i \in Insts |-> FALSE],
              main |-> [i \in Insts |-> "None"],
              rm |-> [i \in Insts |-> "None"],
              owns_rm |-> [i \in Insts |-> FALSE],
              rmOpen |-> [m \in ResourceManagers |-> FALSE],
              life |-> [i \in Insts |-> "absent"],
              output |-> [i \in Insts |-> FALSE]]]

\* The record of call c ending with exception e (NoExc: it returned val)
\* after converting the response text resp.
CallRecord(c, e, val, resp) ==
    [inst |-> c.inst, op |-> c.op, arg |-> c.arg, mode |-> c.mode, func |-> c.func,
     exc |-> e, val |-> val, resp |-> resp, was |-> Snapshot]

OpenResource == [kind |-> "open", name |-> "open_resource", arg |-> 0]

AssignConnected == [kind |-> "assign", name |-> "connected", arg |-> 0]

\* A constructor that declares itself connected as soon as the handle is open.
ConstructorScriptConnectedEarly(d, debug) ==
    << OpenResource, AssignConnected, Query("*IDN?"), Query("*OPT?") >>

\* __init__ after self.rm is set: open_resource, the two queries, then
\* self.connected = True; the Keithley's debug_err() query comes after that.
ConstructorScript(d, debug) ==
    << OpenResource, Query("*IDN?"), Query("*OPT?"), AssignConnected >>
    \o (IF DriverOf(d) = "Keithley2400SourceMeter" /\ debug
        THEN << Query("SYST:ERR?") >>
        ELSE << >>)

\* Numbers of constructor steps that can complete: all, or any prefix ending
\* before a step on the transport, which then raises visa.VisaIOError.
ConstructorStops(script) ==
    { k \in 0..Len(script) : k < Len(script) => script[k + 1].kind # "assign" }

\* Handlers of close() that let a failure of main.close() or rm.close() out.
CaughtInCloseTurnOffOnly(step, e) == step = "turn_off"

\* close(): `except Exception` around turn_off, `except visa.VisaIOError`
\* around main.close() and rm.close().
CaughtInClose(step, e) ==
    IF step = "turn_off" THEN TRUE ELSE e.type = "VisaIOError"

\* One run of close() on driver d: live is the first `if`, own the second, o
\* the outcome of turn_off, fm / fr whether main.close() / rm.close() fault.
CloseRun(d, live, own, o, fm, fr) ==
    LET e1 == IF live /\ o.exc # NoExc /\ ~CaughtInClose("turn_off", o.exc)
              THEN o.exc ELSE NoExc
        ran2 == live /\ e1 = NoExc
        e2 == IF ran2 /\ fm /\ ~CaughtInClose("main.close", VisaIOError)
              THEN VisaIOError ELSE e1
        ran3 == own /\ e2 = NoExc
        e3 == IF ran3 /\ fr /\ ~CaughtInClose("rm.close", VisaIOError)
              THEN VisaIOError ELSE e2
    IN  [events |-> << Event("call", d, "close", 0) >>
                    \o o.events
                    \o (IF ran2
                        THEN << Event(IF fm THEN "fault" ELSE "close", d, "main.close", 0) >>
                        ELSE << >>)
                    \o (IF ran3
                        THEN << Event(IF fr THEN "fault" ELSE "close", d, "rm.close", 0) >>
                        ELSE << >>),
         exc |-> e3,
         main |-> IF ran2 /\ ~fm THEN "closed" ELSE main[d],
         rmClosed |-> ran3 /\ ~fr,
         connected |-> IF e3 = NoExc THEN FALSE ELSE connected[d]]

CloseOutcomes(d) ==
    LET live == main[d] # "None" /\ connected[d]
        own == owns_rm[d] /\ rm[d] # "None"
        offs == IF live THEN CallOutcomes(MethodCall(d, "turn_off", 0, 0))
                ELSE { [events |-> << >>, exc |-> NoExc, val |-> << >>, resp |-> << >>] }
    IN  { CloseRun(d, live, own, o, fm, fr) :
            o \in offs,
            fm \in (IF live THEN BOOLEAN ELSE {FALSE}),
            fr \in (IF own THEN BOOLEAN ELSE {FALSE}) }

\* The methods the application can call on driver object d, with arguments.
DriverCalls(d) ==
    { MethodCall(d, "turn_off", 0, 0),
      AdapterCall(d, "write", ":OUTP ON"),
      AdapterCall(d, "query", "*IDN?") }
    \cup
    (IF DriverOf(d) = "Keithley2400SourceMeter"
     THEN { MethodCall(d, "initialize", w, 0) : w \in WireModes }
          \cup { MethodCall(d, "source_voltage_and_read_current", 1, 1),
                 MethodCall(d, "source_current_and_read_voltage", 1, 1),
                 MethodCall(d, "read_resistance_auto", 0, 0) }
          \cup { ResistanceCall(d, w, m, f) :
                   w \in WireModes, m \in {"AUTO", "MAN"}, f \in {"VOLT", "CURR"} }
     ELSE { MethodCall(d, "initialize", 0, 0),
            MethodCall(d, "set_wavelength", CenterWavelength, 0),
            MethodCall(d, "measure_power", 0, 0) })

----------------------------------------------------------------------------
(* State machine *)

\* The sweep functions receive driver objects that were constructed on one
\* resource manager; an object that is not connected has been closed.
Init ==
    /\ connected \in [Insts -> BOOLEAN]
    /\ output = [i \in Insts |-> FALSE]
    /\ pc = "idle"
    /\ variant = "none"
    /\ args = NoArgs
    /\ ip = 1
    /\ grid = << >>
    /\ idx = 1
    /\ reads = << >>
    /\ results = << >>
    /\ exc = NoExc
    /\ ret = NoTable
    /\ outcome = [kind |-> "none", exc |-> NoExc, table |-> NoTable]
    /\ trace = << >>
    /\ main = [i \in Insts |-> IF connected[i] THEN "open" ELSE "closed"]
    /\ rm = [i \in Insts |-> "injected"]
    /\ owns_rm = [i \in Insts |-> FALSE]
    /\ rmOpen = [m \in ResourceManagers |-> m = "injected"]
    /\ life = [i \in Insts |-> IF connected[i] THEN "constructed" ELSE "closed"]
    /\ last = NoCall
    /\ runs = 0
    /\ file = NoFile
    /\ saved = "None"
    /\ parsed = NoParse

\* The caller invokes one of the sweep functions on the three instruments.
Call ==
    /\ pc = "idle"
    /\ \E v \in Variants : \E a \in ArgSets(v) :
        /\ variant' = v
        /\ args' = a
        /\ pc' = IF ConnectedChecks(v) = << >> THEN "initialize" ELSE "check"
    /\ UNCHANGED <<connected, output, ip, grid, idx, reads, results, exc, ret,
                   outcome, trace>>
    /\ UNCHANGED driverVars
    /\ UNCHANGED csvVars
    /\ UNCHANGED runs

\* The `connected` checks at the top of the try block.
CheckConnected ==
    /\ pc = "check"
    /\ LET checks == ConnectedChecks(variant)
           bad == { i \in 1..Len(checks) : ~connected[checks[i].inst] }
       IN  IF bad = {}
           THEN /\ pc' = "initialize"
                /\ exc' = exc
           ELSE LET first == CHOOSE i \in bad : \A j \in bad : i <= j IN
                /\ pc' = AfterRaise(pc)
                /\ exc' = RaisedAt(Exc("RuntimeError", checks[first].msg), Len(trace),
                                   variant)
    /\ UNCHANGED <<connected, output, variant, args, ip, grid, idx, reads, results,
                   ret, outcome, trace>>
    /\ UNCHANGED driverVars
    /\ UNCHANGED csvVars
    /\ UNCHANGED runs

\* One driver call c of the try body, preceded by the sweep's own sleep `pre`;
\* on success the body goes on at (okpc, okip), on an exception to finally.
DoCall(c, pre, okpc, okip) ==
    \E o \in CallOutcomes(c) :
        /\ trace' = trace \o pre \o o.events
        /\ output' = [i \in Insts |-> OutputAfter(i, output[i], o.events)]
        /\ IF o.exc # NoExc
           THEN /\ exc' = RaisedAt(o.exc, Len(trace'), c.op)
                /\ pc' = AfterRaise(pc)
                /\ UNCHANGED <<ip, reads>>
           ELSE /\ exc' = exc
                /\ pc' = okpc
                /\ ip' = okip
                /\ reads' = reads \o o.val

Initialize ==
    /\ pc = "initialize"
    /\ LET calls == InitCalls(variant, args) IN
       IF ip < Len(calls)
       THEN DoCall(calls[ip], << >>, "initialize", ip + 1)
       ELSE DoCall(calls[ip], << >>, "arange", 1)
    /\ UNCHANGED <<connected, variant, args, grid, idx, results, ret, outcome>>
    /\ UNCHANGED driverVars
    /\ UNCHANGED csvVars
    /\ UNCHANGED runs

\* results = []; grid = np.arange(...)
BuildGrid ==
    /\ pc = "arange"
    /\ IF args.step = 0
       THEN /\ \E e \in ArangeErrors : exc' = RaisedAt(e, Len(trace), "np.arange")
            /\ pc' = AfterRaise(pc)
            /\ UNCHANGED grid
       ELSE /\ grid' = SweepGrid(variant, args)
            /\ pc' = "loop"
            /\ exc' = exc
    /\ UNCHANGED <<connected, output, variant, args, ip, idx, reads, results, ret,
                   outcome, trace>>
    /\ UNCHANGED driverVars
    /\ UNCHANGED csvVars
    /\ UNCHANGED runs

\* The first call of the loop body: it applies grid[idx].
Stimulus ==
    /\ pc = "loop"
    /\ idx <= Len(grid)
    /\ ip = 1
    /\ DoCall(PointCalls(variant, args, LoopValue(grid, idx))[1], << >>, "loop", 2)
    /\ UNCHANGED <<connected, variant, args, grid, idx, results, ret, outcome>>
    /\ UNCHANGED driverVars
    /\ UNCHANGED csvVars
    /\ UNCHANGED runs

\* The later calls of the loop body: the power reading.
Measure ==
    /\ pc = "loop"
    /\ idx <= Len(grid)
    /\ ip > 1
    /\ ip <= Len(PointCalls(variant, args, LoopValue(grid, idx)))
    /\ DoCall(PointCalls(variant, args, LoopValue(grid, idx))[ip],
              SleepBeforeCall(variant, ip), "loop", ip + 1)
    /\ UNCHANGED <<connected, variant, args, grid, idx, results, ret, outcome>>
    /\ UNCHANGED driverVars
    /\ UNCHANGED csvVars
    /\ UNCHANGED runs

\* logger.info(...); results.append(...); and the laser sweep's sleep
Record ==
    /\ pc = "loop"
    /\ idx <= Len(grid)
    /\ ip > Len(PointCalls(variant, args, LoopValue(grid, idx)))
    /\ IF LogError(variant, args) # NoExc
       THEN /\ exc' = RaisedAt(LogError(variant, args), Len(trace), "logger.info")
            /\ pc' = AfterRaise(pc)
            /\ UNCHANGED <<results, idx, ip, reads, trace>>
       ELSE /\ results' = Append(results, Row(variant, LoopValue(grid, idx), reads))
            /\ trace' = trace \o SleepAfterAppend(variant)
            /\ idx' = idx + 1
            /\ ip' = 1
            /\ reads' = << >>
            /\ UNCHANGED <<exc, pc>>
    /\ UNCHANGED <<connected, output, variant, args, grid, ret, outcome>>
    /\ UNCHANGED driverVars
    /\ UNCHANGED csvVars
    /\ UNCHANGED runs

\* The return statement after the loop.
Return ==
    /\ pc = "loop"
    /\ idx > Len(grid)
    /\ ret' = [headers |-> Headers(variant), rows |-> results]
    /\ pc' = "finally"
    /\ UNCHANGED <<connected, output, variant, args, ip, grid, idx, reads, results,
                   exc, outcome, trace>>
    /\ UNCHANGED driverVars
    /\ UNCHANGED csvVars
    /\ UNCHANGED runs

\* What leaves a try/finally: an exception of the finally block replaces
\* whatever the body raised or returned.
Leaves(finallyExc, bodyExc, bodyRet) ==
    IF finallyExc # NoExc
    THEN [kind |-> "raised", exc |-> finallyExc, table |-> NoTable]
    ELSE IF bodyExc # NoExc
    THEN [kind |-> "raised", exc |-> bodyExc, table |-> NoTable]
    ELSE [kind |-> "returned", exc |-> NoExc, table |-> bodyRet]

\* finally: <primary>.turn_off()
Finally ==
    /\ pc = "finally"
    /\ \E o \in CallOutcomes(MethodCall(Primary(variant), "turn_off", 0, 0)) :
        /\ trace' = trace \o o.events
        /\ output' = [i \in Insts |-> OutputAfter(i, output[i], o.events)]
        /\ outcome' = Leaves(RaisedAt(o.exc, Len(trace'), "turn_off"), exc, ret)
    /\ pc' = "done"
    /\ UNCHANGED <<connected, variant, args, ip, grid, idx, reads, results, exc, ret>>
    /\ UNCHANGED driverVars
    /\ UNCHANGED csvVars
    /\ UNCHANGED runs

Next ==
    \/ Call
    \/ CheckConnected
    \/ Initialize
    \/ BuildGrid
    \/ Stimulus
    \/ Measure
    \/ Record
    \/ Return
    \/ Finally

Spec == Init /\ [][Next]_vars

----------------------------------------------------------------------------
(* Sweeps over wider ranges: every instrument is connected, the wire mode  *)
(* is 2 and no logger is passed; the sweep itself is the one above.        *)

WideArgSets ==
    [start : WideVals, stop : WideVals, step : Steps, wire_mode : {2}, logger : {FALSE}]

InitWide ==
    /\ Init
    /\ connected = [i \in Insts |-> TRUE]

CallWide ==
    /\ pc = "idle"
    /\ \E v \in Variants : \E a \in WideArgSets :
        /\ variant' = v
        /\ args' = a
        /\ pc' = IF ConnectedChecks(v) = << >> THEN "initialize" ELSE "check"
    /\ UNCHANGED <<connected, output, ip, grid, idx, reads, results, exc, ret,
                   outcome, trace>>
    /\ UNCHANGED driverVars
    /\ UNCHANGED csvVars
    /\ UNCHANGED runs

NextWide ==
    \/ CallWide
    \/ CheckConnected
    \/ Initialize
    \/ BuildGrid
    \/ Stimulus
    \/ Measure
    \/ Record
    \/ Return
    \/ Finally

SpecWide == InitWide /\ [][NextWide]_vars

----------------------------------------------------------------------------
(* Sweeps run one after another on the same driver objects *)

\* Most sweeps the caller runs in a row
MaxRuns == 2

RepeatArgSets(v) ==
    [start : {0}, stop : {0, 1}, step : {1},
     wire_mode : IF v = "perform_laser_sweep" THEN {2} ELSE {2, 3},
     logger : {FALSE}]

CallRepeat ==
    /\ pc = "idle"
    /\ \E v \in Variants : \E a \in RepeatArgSets(v) :
        /\ variant' = v
        /\ args' = a
        /\ pc' = IF ConnectedChecks(v) = << >> THEN "initialize" ELSE "check"
    /\ UNCHANGED <<connected, output, ip, grid, idx, reads, results, exc, ret,
                   outcome, trace>>
    /\ UNCHANGED driverVars
    /\ UNCHANGED csvVars
    /\ UNCHANGED runs

\* The caller has its table or its exception and goes on to the next sweep
\* with the same driver objects: nothing of the finished call is left but
\* what it did to the instruments.
Again ==
    /\ pc = "done"
    /\ runs < MaxRuns
    /\ runs' = runs + 1
    /\ pc' = "idle"
    /\ variant' = "none"
    /\ args' = NoArgs
    /\ ip' = 1
    /\ grid' = << >>
    /\ idx' = 1
    /\ reads' = << >>
    /\ results' = << >>
    /\ exc' = NoExc
    /\ ret' = NoTable
    /\ outcome' = [kind |-> "none", exc |-> NoExc, table |-> NoTable]
    /\ trace' = << >>
    /\ UNCHANGED <<connected, output>>
    /\ UNCHANGED driverVars
    /\ UNCHANGED csvVars

NextRepeat ==
    \/ CallRepeat
    \/ CheckConnected
    \/ Initialize
    \/ BuildGrid
    \/ Stimulus
    \/ Measure
    \/ Record
    \/ Return
    \/ Finally
    \/ Again

SpecRepeat == Init /\ [][NextRepeat]_vars

----------------------------------------------------------------------------
(* State machine of the driver objects *)

\* No driver object exists yet; the application holds an open resource
\* manager.  pc is "ready" between calls and "returned" when a call has ended
\* and the application has not yet gone on.
InitDriver ==
    /\ connected = [i \in Insts |-> FALSE]
    /\ output = [i \in Insts |-> FALSE]
    /\ pc = "ready"
    /\ variant = "none"
    /\ args = NoArgs
    /\ ip = 1
    /\ grid = << >>
    /\ idx = 1
    /\ reads = << >>
    /\ results = << >>
    /\ exc = NoExc
    /\ ret = NoTable
    /\ outcome = [kind |-> "none", exc |-> NoExc, table |-> NoTable]
    /\ trace = << >>
    /\ main = [i \in Insts |-> "None"]
    /\ rm = [i \in Insts |-> "None"]
    /\ owns_rm = [i \in Insts |-> FALSE]
    /\ rmOpen = [m \in ResourceManagers |-> m = "injected"]
    /\ life = [i \in Insts |-> "absent"]
    /\ last = NoCall
    /\ runs = 0
    /\ file = NoFile
    /\ saved = "None"
    /\ parsed = NoParse

\* Driver(resource_manager=..., debug=...): the whole of __init__.  In the
\* driver machine trace holds the events of the latest call only.
Construct ==
    \E d \in Drivers :
        /\ pc = "ready"
        /\ pc' = "returned"
        /\ life[d] = "absent"
        /\ \E injected \in BOOLEAN :
           \E debug \in (IF DriverOf(d) = "Keithley2400SourceMeter" THEN BOOLEAN ELSE {FALSE}) :
            LET script == ConstructorScript(d, debug)
                m == IF injected THEN "injected" ELSE OwnRM(d)
                c == MethodCall(d, "__init__", 0, 0)
            IN  \E k \in ConstructorStops(script) :
                /\ trace' = CallEvents(c, script, k)
                /\ rm' = [rm EXCEPT ![d] = m]
                /\ owns_rm' = [owns_rm EXCEPT ![d] = OwnsRm(injected)]
                /\ rmOpen' = [rmOpen EXCEPT ![m] = TRUE]
                /\ main' = [main EXCEPT ![d] =
                              IF \E j \in 1..k : script[j].kind = "open"
                              THEN "open" ELSE "None"]
                /\ connected' = [connected EXCEPT ![d] =
                                   \E j \in 1..k : script[j].kind = "assign"]
                /\ life' = [life EXCEPT ![d] =
                              IF k = Len(script) THEN "constructed" ELSE "failed"]
                /\ last' = CallRecord(c, IF k < Len(script) THEN VisaIOError ELSE NoExc,
                                      << >>, << >>)
        /\ UNCHANGED output
        /\ UNCHANGED sweepData
        /\ UNCHANGED csvVars

\* The application calls one method of an existing driver object.
DriverCall ==
    \E d \in Drivers :
        /\ pc = "ready"
        /\ pc' = "returned"
        /\ life[d] # "absent"
        /\ \E c \in DriverCalls(d) : \E o \in CallOutcomes(c) :
            /\ trace' = o.events
            /\ output' = [i \in Insts |-> OutputAfter(i, output[i], o.events)]
            /\ last' = CallRecord(c, o.exc, o.val, o.resp)
        /\ UNCHANGED <<connected, main, rm, owns_rm, rmOpen, life>>
        /\ UNCHANGED sweepData
        /\ UNCHANGED csvVars

\* close()
Close ==
    \E d \in Drivers :
        /\ pc = "ready"
        /\ pc' = "returned"
        /\ life[d] # "absent"
        /\ \E o \in CloseOutcomes(d) :
            /\ trace' = o.events
            /\ output' = [i \in Insts |-> OutputAfter(i, output[i], o.events)]
            /\ main' = [main EXCEPT ![d] = o.main]
            /\ rmOpen' = IF o.rmClosed THEN [rmOpen EXCEPT ![rm[d]] = FALSE] ELSE rmOpen
            /\ connected' = [connected EXCEPT ![d] = o.connected]
            /\ last' = CallRecord(MethodCall(d, "close", 0, 0), o.exc, << >>, << >>)
        /\ life' = [life EXCEPT ![d] = "closed"]
        /\ UNCHANGED <<rm, owns_rm>>
        /\ UNCHANGED sweepData
        /\ UNCHANGED csvVars

\* The application goes on after a call: it keeps the objects, not the log.
Resume ==
    /\ pc = "returned"
    /\ pc' = "ready"
    /\ trace' = << >>
    /\ last' = NoCall
    /\ UNCHANGED <<connected, output, main, rm, owns_rm, rmOpen, life>>
    /\ UNCHANGED sweepData
    /\ UNCHANGED csvVars

NextDriver ==
    \/ Construct
    \/ DriverCall
    \/ Close
    \/ Resume

SpecDriver == InitDriver /\ [][NextDriver]_vars

----------------------------------------------------------------------------
(* Vocabulary of the properties *)

\* Positions of the driver method calls in the trace.
CallPositions == { i \in 1..Len(trace) : trace[i].kind = "call" }

\* Positions of the finalization calls: turn_off on the primary instrument.
TurnOffPositions ==
    { i \in CallPositions :
        trace[i].name = "turn_off" /\ trace[i].inst = Primary(variant) }

\* Positions where a command reached, or was handed to, a transport.
CommandPositions ==
    { i \in 1..Len(trace) : trace[i].kind \in {"write", "query", "fault"} }

\* No write or query of this sweep failed.
TransportWorked == \A i \in 1..Len(trace) : trace[i].kind # "fault"

\* The instrument arguments of each sweep function.
Arguments(v) ==
    CASE v = "perform_laser_sweep" -> {"laser"}
      [] v = "measure_iv_curve" -> {"sourcemeter"}
      [] v = "measure_liv_curve" -> {"sourcemeter", "powermeter", "laser"}
      [] v = "measure_laser_liv_curve_by_source_current" -> {"sourcemeter", "powermeter"}
      [] OTHER -> {}

\* The sweep's own not-connected message naming instrument i.
SweepNotConnectedMsg(i) ==
    CASE i = "sourcemeter" -> "Cannot perform sweep: Instrument not connected."
      [] i = "powermeter" -> "Cannot perform sweep: Power meter not connected."
      [] i = "laser" -> "Cannot perform sweep: Laser not connected."

----------------------------------------------------------------------------
(* C1: in every sweep variant and on every exit path, turn_off is called   *)
(* on the primary stimulus instrument exactly once, it is the last         *)
(* instrument operation of the sweep, and the caller gets control back     *)
(* only after it.                                                          *)
C1_TurnOffOnceAndLast ==
    /\ pc # "done" => TurnOffPositions = {} /\ outcome.kind = "none"
    /\ pc = "done" =>
        /\ Cardinality(TurnOffPositions) = 1
        /\ \A i \in CallPositions : \A j \in TurnOffPositions : i <= j
        /\ outcome.kind # "none"

\* A sweep that failed in the stimulus call of a later grid point has ended.
C1_Witness ==
    /\ pc = "done"
    /\ variant = "measure_liv_curve"
    /\ exc.type = "VisaIOError"
    /\ exc.by = "source_voltage_and_read_current"
    /\ idx >= 2
    /\ Cardinality(TurnOffPositions) = 1

(* C2 (as claimed): at the end of every sweep whose transport worked, no   *)
(* output the sweep switched on is still on: source-meter output and laser *)
(* emission are both off.                                                  *)
C2_NoStimulusLeftApplied ==
    (pc = "done" /\ TransportWorked) => \A i \in Insts : ~output[i]

(* C3 (as claimed): an LIV sweep called with the source-meter connected    *)
(* and the power meter disconnected raises the sweep's not-connected error *)
(* and no command at all has been sent to any instrument.                  *)
C3_LIVPreconditionBeforeAnyCommand ==
    ( /\ pc = "done"
      /\ variant \in LIVVariants
      /\ connected["sourcemeter"]
      /\ ~connected["powermeter"] )
    => /\ outcome.kind = "raised"
       /\ outcome.exc.msg = SweepNotConnectedMsg("powermeter")
       /\ CommandPositions = {}

(* C4 (as claimed): in every sweep variant no initialize call is made      *)
(* unless every instrument argument is connected, and a sweep called with  *)
(* a disconnected argument ends with the sweep's own not-connected error   *)
(* naming a disconnected argument.                                         *)
C4_PreconditionErrorNamesInstrument ==
    LET missing == { i \in Arguments(variant) : ~connected[i] } IN
    /\ (\E p \in CallPositions : trace[p].name = "initialize") => missing = {}
    /\ (pc = "done" /\ missing # {}) =>
        /\ outcome.kind = "raised"
        /\ \E i \in missing : outcome.exc.msg = SweepNotConnectedMsg(i)

\* The try body was left by an exception of a driver method call.
BodyCallRaised ==
    exc.by \in {"initialize", "set_wavelength", "measure_power",
                "source_voltage_and_read_current", "source_current_and_read_voltage"}

(* C5 (as claimed): when initialize, a stimulus call or a measure call     *)
(* raises during a sweep, the caller receives that same exception and no   *)
(* result table.                                                           *)
C5_BodyFaultPropagatesUnmodified ==
    (pc = "done" /\ BodyCallRaised) =>
        /\ outcome.kind = "raised"
        /\ outcome.exc = exc
        /\ outcome.table = NoTable

\* A write of the finalization turn_off failed on the transport.
TurnOffFaulted ==
    \E j \in TurnOffPositions : \E i \in (j + 1)..Len(trace) : trace[i].kind = "fault"

(* C6 (as claimed): a transport error inside the finalization turn_off is  *)
(* swallowed by turn_off in both drivers: the caller still gets the body's *)
(* own exception if the body failed, and the table if it succeeded.        *)
C6_TurnOffSwallowsTransportError ==
    (pc = "done" /\ TurnOffFaulted) =>
        outcome = Leaves(NoExc, exc, ret)

\* step # 0 and of the sign of stop - start
ValidRange(a) == a.step # 0 /\ (a.stop - a.start) * a.step > 0

(* C7 (as claimed): for every sweep variant and every valid (start, stop,  *)
(* step) the grid starts at start, ends within half a step of stop and has *)
(* floor(|stop - start| / |step|) + 1 points.                              *)
C7_GridLengthAndEndpoints ==
    (pc = "loop" /\ ValidRange(args)) =>
        /\ Len(grid) = (Abs(args.stop - args.start) \div Abs(args.step)) + 1
        /\ grid[1] = args.start
        /\ 2 * Abs(grid[Len(grid)] - args.stop) <= Abs(args.step)

\* The quantity a column header names.
QuantityNamed(h) ==
    CASE h = "Wavelength (nm)" -> "Wavelength"
      [] h = "Voltage (V)" -> "Voltage"
      [] h = "Current (A)" -> "Current"
      [] h \in {"Power (dBm)", "Optical Power (dBm)"} -> "Power"

ColumnCount(v) == IF v \in LIVVariants THEN 3 ELSE 2

(* C8: for every sweep that returns, the table has one row per grid point, *)
(* 2 headers for the laser and IV sweeps and 3 for the LIV sweeps, every   *)
(* row has as many fields as there are headers, and the field at each      *)
(* position holds the quantity its header names.                           *)
C8_TableShape ==
    outcome.kind = "returned" =>
        LET t == outcome.table IN
        /\ Len(t.rows) = Len(grid)
        /\ Len(t.headers) = ColumnCount(variant)
        /\ \A r \in 1..Len(t.rows) :
            /\ Len(t.rows[r]) = Len(t.headers)
            /\ \A j \in 1..Len(t.headers) :
                t.rows[r][j].q = QuantityNamed(t.headers[j])

\* A current-driven LIV sweep over at least two points has returned.
C8_Witness ==
    /\ outcome.kind = "returned"
    /\ variant = "measure_laser_liv_curve_by_source_current"
    /\ Len(outcome.table.rows) >= 2
    /\ Len(outcome.table.rows) = Len(grid)

\* The method that applies the swept stimulus in each sweep.
StimulusOp(v) ==
    CASE v = "perform_laser_sweep" -> "set_wavelength"
      [] v = "measure_laser_liv_curve_by_source_current" -> "source_current_and_read_voltage"
      [] OTHER -> "source_voltage_and_read_current"

\* The stimulus calls made so far, in time order.
StimulusCalls ==
    SelectSeq(trace, LAMBDA e : /\ e.kind = "call"
                                /\ e.inst = Primary(variant)
                                /\ e.name = StimulusOp(variant))

\* Row r carries grid value g: exactly one of its fields comes from the grid,
\* and that field holds g.
CarriesGridValue(row, g) ==
    /\ Cardinality({ j \in 1..Len(row) : row[j].from = "grid" }) = 1
    /\ \A j \in 1..Len(row) : row[j].from = "grid" => row[j].v = g

(* C9: the primary stimulus operation is called once per grid point, in    *)
(* grid order (at any moment the calls made are the first grid values, in  *)
(* order; a sweep that returns has made them all), and the i-th row        *)
(* carries the i-th grid value.                                            *)
C9_StimulusPerPointInGridOrder ==
    /\ Len(StimulusCalls) <= Len(grid)
    /\ \A i \in 1..Len(StimulusCalls) : StimulusCalls[i].arg = grid[i]
    /\ Len(results) <= Len(StimulusCalls)
    /\ \A i \in 1..Len(results) : CarriesGridValue(results[i], grid[i])
    /\ outcome.kind = "returned" =>
        /\ Len(StimulusCalls) = Len(grid)
        /\ outcome.table.rows = results
        /\ Len(results) = Len(grid)

\* A voltage-driven LIV sweep over at least three points has returned.
C9_Witness ==
    /\ outcome.kind = "returned"
    /\ variant = "measure_liv_curve"
    /\ Len(grid) >= 3
    /\ Len(StimulusCalls) = Len(grid)
    /\ Len(outcome.table.rows) = Len(grid)

\* The order of a row as the claim states it: stimulus, primary response,
\* then the power-meter response if there is one.
StimulusFirst(v, row) ==
    /\ Len(row) = ColumnCount(v)
    /\ row[1].from = "grid"
    /\ row[1].q = StimulusQuantity(v)
    /\ row[2].from = Primary(v)
    /\ Len(row) = 3 => row[3].from = "powermeter" /\ row[3].q = "Power"

(* C10 (as claimed): in every sweep variant each appended row is           *)
(* (stimulus grid value, primary response, optional power-meter response). *)
C10_RowsStimulusFirst ==
    \A r \in 1..Len(results) : StimulusFirst(variant, results[r])

(* C10 (amended): in the laser, IV and voltage-driven LIV sweeps each row  *)
(* is (stimulus grid value, primary response, optional power-meter         *)
(* response); in the current-driven LIV sweep each row is (measured        *)
(* voltage, stimulus current, power-meter response), so its first field is *)
(* the source-meter response and its second the swept stimulus value.      *)
C10_RowComposition ==
    \A r \in 1..Len(results) :
        LET row == results[r] IN
        IF variant = "measure_laser_liv_curve_by_source_current"
        THEN /\ Len(row) = 3
             /\ row[1].from = "sourcemeter" /\ row[1].q = "Voltage"
             /\ row[2].from = "grid" /\ row[2].q = "Current" /\ row[2].v = grid[r]
             /\ row[3].from = "powermeter" /\ row[3].q = "Power"
        ELSE /\ StimulusFirst(variant, row)
             /\ row[1].v = grid[r]

\* A current-driven LIV sweep has appended a row.
C10_Witness ==
    /\ variant = "measure_laser_liv_curve_by_source_current"
    /\ Len(results) >= 1
    /\ results[1][2].from = "grid"

----------------------------------------------------------------------------
(* Order of the steps at one grid point *)

\* A write that changes the stimulus applied by the sweep's primary
\* instrument: the wavelength, the source level, or enabling the output.
StimulusWrite(ev) ==
    /\ ev.kind = "write"
    /\ ev.inst = Primary(variant)
    /\ ev.name \in {"sour1:wav NM", ":SOUR:VOLT:LEV", ":SOUR:CURR:LEV", ":OUTP ON"}

\* Positions of the measurements: the queries that were answered.
MeasurementPositions == { i \in 1..Len(trace) : trace[i].kind = "query" }

\* The last stimulus change before position q (0 if there is none).
LastStimulusBefore(q) ==
    LET ws == { i \in 1..(q - 1) : StimulusWrite(trace[i]) }
    IN  IF ws = {} THEN 0 ELSE CHOOSE i \in ws : \A j \in ws : j <= i

(* C11: at every grid point of every sweep the order is set stimulus, then *)
(* settle delay, then measure, then record: every measurement comes after  *)
(* a stimulus change and a sleep lies between that change and the          *)
(* measurement, and a row is appended only for a point already measured.   *)
C11_SettleDelayBeforeMeasure ==
    /\ \A q \in MeasurementPositions :
        /\ LastStimulusBefore(q) > 0
        /\ \E d \in (LastStimulusBefore(q) + 1)..(q - 1) : trace[d].kind = "sleep"
    /\ Len(results) <=
         Cardinality({ q \in MeasurementPositions : trace[q].inst = Primary(variant) })

\* Positions of the power-meter calls, of the answered power-meter queries
\* and of the answered source-meter reads.
PowerCalls ==
    { i \in CallPositions : trace[i].inst = "powermeter" /\ trace[i].name = "measure_power" }

PowerQueries ==
    { i \in MeasurementPositions : trace[i].inst = "powermeter" }

SourceReads ==
    { i \in MeasurementPositions : trace[i].inst = "sourcemeter" }

\* How many positions of S lie at or before i.
Rank(S, i) == Cardinality({ j \in S : j <= i })

(* C12: at every grid point of both LIV sweeps the source-meter            *)
(* source-and-read call completes first, then the inter-instrument delay   *)
(* elapses, then the power meter is queried exactly once, and only then is *)
(* the row appended: each power-meter call directly follows the            *)
(* powermeter_delay sleep, which directly follows the answered read of the *)
(* same point; the k-th power-meter call belongs to the k-th source-meter  *)
(* read; rows never outnumber the answered power queries, and the power    *)
(* meter is not queried for the next point before the row is appended.     *)
C12_LIVPointOrder ==
    variant \in LIVVariants =>
        /\ \A p \in PowerCalls :
            /\ p > 2
            /\ trace[p - 1] = Event("sleep", "controller", "powermeter_delay", 0)
            /\ trace[p - 2].kind = "query" /\ trace[p - 2].inst = "sourcemeter"
            /\ Rank(SourceReads, p) = Rank(PowerCalls, p)
        /\ Len(results) <= Cardinality(PowerQueries)
        /\ Cardinality(PowerCalls) <= Len(results) + 1
        /\ outcome.kind = "returned" =>
            /\ Cardinality(PowerQueries) = Len(grid)
            /\ Cardinality(PowerCalls) = Len(grid)
            /\ Len(results) = Len(grid)

\* A current-driven LIV sweep over at least two points has returned, so the
\* power meter was queried for each of them.
C12_Witness ==
    /\ variant = "measure_laser_liv_curve_by_source_current"
    /\ outcome.kind = "returned"
    /\ Len(grid) >= 2
    /\ Cardinality(PowerQueries) = Len(grid)

----------------------------------------------------------------------------
(* Initialization before use *)

\* Positions of the calls of method op on instrument argument i.
CallsOf(i, op) ==
    { p \in CallPositions : trace[p].inst = i /\ trace[p].name = op }

\* Positions of the set and measure calls on instrument argument i.
SetOrMeasureCalls(i) ==
    { p \in CallPositions :
        trace[p].inst = i /\ trace[p].name \notin {"initialize", "turn_off"} }

\* Instrument argument i is initialized before it is first set or measured.
InitializedBeforeUse(i) ==
    \A p \in SetOrMeasureCalls(i) : \E q \in CallsOf(i, "initialize") : q < p

\* The center wavelength is commanded after the laser's initialize and before
\* the first grid point.
CenterWavelengthInPlace ==
    \A p \in CallsOf("sourcemeter", "source_voltage_and_read_current") :
        \E w \in CallsOf("laser", "set_wavelength") :
            /\ trace[w].arg = CenterWavelength
            /\ w < p
            /\ \E q \in CallsOf("laser", "initialize") : q < w

(* C13: in every sweep, initialize is called on each instrument argument   *)
(* (source-meter, power meter, laser) before the first set or measure      *)
(* operation on that instrument, and in the laser-inclusive LIV sweep the  *)
(* fixed center wavelength is commanded after the laser's initialize and   *)
(* before the first grid point.                                            *)
C13_InitializeBeforeUse ==
    /\ \A i \in Arguments(variant) : InitializedBeforeUse(i)
    /\ variant = "measure_liv_curve" => CenterWavelengthInPlace

----------------------------------------------------------------------------
(* The source-and-read operations *)

SourceAndReadOps == {"source_voltage_and_read_current", "source_current_and_read_voltage"}

\* Positions of the source-and-read calls whose :READ? was answered.
CompletedSourceReads ==
    { p \in CallPositions :
        /\ trace[p].name \in SourceAndReadOps
        /\ \E q \in SourceReads : q > p /\ \A j \in (p + 1)..q : trace[j].kind # "call" }

\* Position just after the events of the call at p.
EndOfCall(p) ==
    LET later == { j \in (p + 1)..Len(trace) :
                     trace[j].kind = "call" \/ trace[j].inst # trace[p].inst }
    IN  IF later = {} THEN Len(trace) + 1 ELSE CHOOSE j \in later : \A k \in later : j <= k

\* Writes that only configure the source or the measurement.
ConfigurationWrite(ev) ==
    /\ ev.kind = "write"
    /\ ev.name \in {":SOUR:FUNC VOLT", ":SOUR:VOLT:MODE FIXED", ":SOUR:VOLT:RANG",
                    ":SOUR:VOLT:LEV", ":SENS:CURR:PROT", ":SENS:FUNC 'CURR'",
                    ":SENS:CURR:RANG", ":FORM:ELEM CURR",
                    ":SOUR:FUNC CURR", ":SOUR:CURR:MODE FIXED", ":SOUR:CURR:RANG",
                    ":SOUR:CURR:LEV", ":SENS:VOLT:PROT", ":SENS:FUNC 'VOLT'",
                    ":SENS:VOLT:RANG", ":FORM:ELEM VOLT"}

\* The kinds of setting the claim lists, by the command that sets them.
SettingsOf(op) ==
    IF op = "source_voltage_and_read_current"
    THEN {":SOUR:FUNC VOLT", ":SOUR:VOLT:RANG", ":SOUR:VOLT:LEV", ":SENS:CURR:PROT",
          ":SENS:FUNC 'CURR'", ":SENS:CURR:RANG"}
    ELSE {":SOUR:FUNC CURR", ":SOUR:CURR:RANG", ":SOUR:CURR:LEV", ":SENS:VOLT:PROT",
          ":SENS:FUNC 'VOLT'", ":SENS:VOLT:RANG"}

(* C19: source_voltage_and_read_current and source_current_and_read_voltage *)
(* each issue every source and sense configuration write (function, range, *)
(* level, compliance limit, measurement range) before the output-enable    *)
(* write, then wait the settle delay, then issue exactly one read query,   *)
(* and issue no output-disable; the output is enabled when the operation   *)
(* returns and stays enabled until turn_off.                               *)
C19_SourceAndReadOrder ==
    /\ \A p \in CompletedSourceReads :
        LET e == EndOfCall(p)
            on == { j \in (p + 1)..(e - 1) : trace[j].name = ":OUTP ON" }
        IN  /\ Cardinality(on) = 1
            /\ \A j \in on :
                /\ \A k \in (p + 1)..(j - 1) : ConfigurationWrite(trace[k])
                /\ \A s \in SettingsOf(trace[p].name) :
                    \E k \in (p + 1)..(j - 1) : trace[k].name = s
                /\ j + 2 = e - 1
                /\ trace[j + 1].kind = "sleep" /\ trace[j + 1].name = "delay"
                /\ trace[j + 2].kind = "query" /\ trace[j + 2].name = ":READ?"
            /\ \A k \in (p + 1)..(e - 1) : ~SwitchesOff(trace[k])
    /\ \A p \in CompletedSourceReads :
        (\A t \in CallsOf("sourcemeter", "turn_off") : t < p) => output["sourcemeter"]

\* An IV sweep has read two points, one after the other, before turn_off.
C19_Witness ==
    /\ variant = "measure_iv_curve"
    /\ pc = "loop"
    /\ Cardinality(CompletedSourceReads) >= 2
    /\ output["sourcemeter"]

----------------------------------------------------------------------------
(* Vocabulary of the driver properties (state machine SpecDriver) *)

\* A call has just ended on a driver object.
Called == last.op # "none"

\* The texts of the not-connected errors of the two drivers and the adapter.
NotConnectedMessages ==
    {"Instrument not connected.",
     "Cannot initialize: Instrument not connected.",
     "Cannot set wavelength: Instrument not connected.",
     "Cannot measure power: Instrument not connected.",
     "Cannot turn off laser: Instrument not connected."}

\* Positions of the latest call's events that reached or tried the
\* transport, the instrument handle or the resource manager.
TransportPositions ==
    { i \in 1..Len(trace) : trace[i].kind \in {"write", "query", "fault", "open", "close"} }

(* C14: on a driver whose connected flag is false (construction never      *)
(* completed, or close() was called) every operation other than close      *)
(* (initialize, set_wavelength, measure_power, read_resistance_auto,       *)
(* read_resistance_configured, source_voltage_and_read_current,            *)
(* source_current_and_read_voltage, turn_off, write, query) fails at once  *)
(* with a not-connected error, transmits nothing and changes nothing.      *)
C14_DisconnectedOperationsFail ==
    (Called /\ last.op \notin {"close", "__init__"} /\ ~last.was.connected[last.inst]) =>
        /\ last.exc.type = "RuntimeError"
        /\ last.exc.msg \in NotConnectedMessages
        /\ TransportPositions = {}
        /\ Snapshot = last.was

\* read_resistance_configured was called on a driver that had been closed.
C14_Witness ==
    /\ last.op = "read_resistance_configured"
    /\ last.was.life[last.inst] = "closed"
    /\ ~last.was.connected[last.inst]
    /\ last.exc.type = "RuntimeError"

\* The constructor steps that establish the connection.
ConnectionSteps == << "open_resource", "*IDN?", "*OPT?" >>

\* The latest call faulted at the transport step named n.
FaultedAt(n) == \E i \in 1..Len(trace) : trace[i].kind = "fault" /\ trace[i].name = n

(* C15: when opening the transport, the identity query or the options      *)
(* query raises a transport error during construction, the constructor     *)
(* raises and connected is false; connected becomes true only after open,  *)
(* identity query and options query have all succeeded, in that order.     *)
C15_ConnectedOnlyAfterHandshake ==
    (Called /\ last.op = "__init__") =>
        /\ (\E s \in 1..3 : FaultedAt(ConnectionSteps[s])) =>
              /\ last.exc.type = "VisaIOError"
              /\ ~connected[last.inst]
        /\ connected[last.inst] =>
              /\ Len(trace) >= 5
              /\ trace[2].kind = "open" /\ trace[2].name = ConnectionSteps[1]
              /\ trace[3].kind = "query" /\ trace[3].name = ConnectionSteps[2]
              /\ trace[4].kind = "query" /\ trace[4].name = ConnectionSteps[3]
              /\ trace[5].kind = "assign"
        /\ (last.exc = NoExc) => connected[last.inst]

\* A constructor whose options query faulted: the handle is open, the
\* constructor raised, the driver is not connected.
C15_Witness ==
    /\ last.op = "__init__"
    /\ FaultedAt("*OPT?")
    /\ last.exc.type = "VisaIOError"
    /\ main[last.inst] = "open"
    /\ ~connected[last.inst]

\* Positions, in the latest call, of the attempts (successful or faulted) to
\* close the instrument handle and the resource manager.
AttemptsOf(n) ==
    { i \in 1..Len(trace) : trace[i].kind \in {"close", "fault"} /\ trace[i].name = n }

\* close() was just called on a driver that was connected.
ClosedWhileConnected ==
    Called /\ last.op = "close" /\ last.was.connected[last.inst]

\* close() attempted turn_off, then the handle, and raised nothing.
TurnOffThenHandle ==
    /\ last.exc = NoExc
    /\ Len(trace) >= 2
    /\ trace[2] = Event("call", last.inst, "turn_off", 0)
    /\ Cardinality(AttemptsOf("main.close")) = 1
    /\ \A m \in AttemptsOf("main.close") :
        /\ m > 2
        /\ \A i \in 3..(m - 1) : trace[i].kind \in {"write", "fault"}

\* ... and then the resource manager, as the last step.
ThenResourceManager ==
    /\ Cardinality(AttemptsOf("rm.close")) = 1
    /\ \A r \in AttemptsOf("rm.close") :
        r = Len(trace) /\ (r - 1) \in AttemptsOf("main.close")

(* C16 (as claimed): close() on a connected driver attempts turn_off, then *)
(* closes the instrument handle, then closes the resource manager, in that *)
(* order; a transport failure in any of these steps is not re-raised and   *)
(* does not prevent the later steps; close() always ends with connected    *)
(* false.                                                                  *)
C16_CloseAlwaysClosesManager ==
    /\ ClosedWhileConnected => (TurnOffThenHandle /\ ThenResourceManager)
    /\ (Called /\ last.op = "close") => ~connected[last.inst]

(* C16 (amended): close() on a connected driver attempts turn_off, then    *)
(* closes the instrument handle, then, only if the driver created its      *)
(* resource manager itself, closes the resource manager, in that order (a  *)
(* driver given a resource manager leaves it alone); a transport failure   *)
(* in any of these steps is not re-raised and does not prevent the later   *)
(* steps; close() always ends with connected false.                        *)
C16_CloseStepsInOrder ==
    /\ ClosedWhileConnected =>
        /\ TurnOffThenHandle
        /\ IF last.was.owns_rm[last.inst]
           THEN ThenResourceManager
           ELSE /\ AttemptsOf("rm.close") = {}
                /\ \A m \in AttemptsOf("main.close") : m = Len(trace)
    /\ (Called /\ last.op = "close") => ~connected[last.inst]

\* close() on a connected driver that owns its resource manager: turn_off
\* and the handle's close both faulted, and the resource manager was still
\* closed.
C16_Witness ==
    /\ ClosedWhileConnected
    /\ last.was.owns_rm[last.inst]
    /\ \E i \in 1..Len(trace) : trace[i].kind = "fault" /\ trace[i].name = "sour1:pow:stat 0"
    /\ FaultedAt("main.close")
    /\ trace[Len(trace)] = Event("close", last.inst, "rm.close", 0)
    /\ ~rmOpen[rm[last.inst]]
    /\ ~connected[last.inst]

\* close() was just called on a driver that had already been closed.
ClosedAgain ==
    Called /\ last.op = "close" /\ last.was.life[last.inst] = "closed"

(* C17: close() is idempotent: calling close() a second time (or any       *)
(* further number of times) on the same driver raises nothing, leaves the  *)
(* driver state unchanged, and performs no further action on the           *)
(* transport, the instrument handle or the resource manager.               *)
C17_CloseIdempotent ==
    ClosedAgain =>
        /\ last.exc = NoExc
        /\ Snapshot = last.was
        /\ TransportPositions = {}

\* The other driver object.
Other(d) == CHOOSE e \in Drivers : e # d

\* Driver d can still reach its instrument: it is connected, its handle is
\* open and so is the resource manager the handle belongs to.
Usable(d) == connected[d] /\ main[d] = "open" /\ rmOpen[rm[d]]

(* C18: a driver closes the resource manager only if it created it itself: *)
(* close() never closes a manager the driver was given, and when two       *)
(* drivers are constructed with the same injected resource manager,        *)
(* closing one of them leaves the shared manager open and the other driver *)
(* connected and usable.                                                   *)
C18_SharedManagerSurvivesClose ==
    /\ rmOpen["injected"]
    /\ (Called /\ last.op = "close") =>
        /\ \A m \in ResourceManagers :
            (last.was.rmOpen[m] /\ ~rmOpen[m]) =>
                (m = rm[last.inst] /\ owns_rm[last.inst] /\ m = OwnRM(last.inst))
        /\ (/\ rm[last.inst] = "injected"
            /\ rm[Other(last.inst)] = "injected"
            /\ last.was.connected[Other(last.inst)])
           => Usable(Other(last.inst))

\* Both drivers were built on the injected manager and connected; one was
\* closed while connected, and the other is still usable.
C18_Witness ==
    /\ ClosedWhileConnected
    /\ rm[last.inst] = "injected"
    /\ rm[Other(last.inst)] = "injected"
    /\ last.was.connected[Other(last.inst)]
    /\ trace[Len(trace)] = Event("close", last.inst, "main.close", 0)
    /\ Usable(Other(last.inst))

\* The remote-sense commands written by the latest call.
RemoteSenseWrites ==
    { trace[i].name : i \in { j \in 1..Len(trace) :
                                /\ trace[j].kind = "write"
                                /\ trace[j].name \in {":SYST:RSEN ON", ":SYST:RSEN OFF"} } }

\* A source-meter operation that takes a wire mode was just called on a
\* connected driver, and the transport did not fault.
WireModeCall ==
    /\ Called
    /\ last.op \in {"initialize", "read_resistance_configured"}
    /\ DriverOf(last.inst) = "Keithley2400SourceMeter"
    /\ last.was.connected[last.inst]
    /\ \A i \in 1..Len(trace) : trace[i].kind # "fault"

\* What the claim requires of a call with wire mode w.
WireModeHonoured(w) ==
    CASE w = 2 -> RemoteSenseWrites = {":SYST:RSEN OFF"}
      [] w = 4 -> RemoteSenseWrites = {":SYST:RSEN ON"}
      [] OTHER -> /\ last.exc.type = "ValueError"
                  /\ last.exc.msg = "Invalid wire mode. Use 2 for 2-wire or 4 for 4-wire mode."
                  /\ RemoteSenseWrites = {}

(* C20: every source-meter operation that takes a wire mode (initialize    *)
(* and read_resistance_configured) turns remote sensing off for 2 and on   *)
(* for 4, and for any other value fails with an invalid-configuration      *)
(* error instead of writing a remote-sense command.                        *)
C20_WireModeValidated ==
    WireModeCall => WireModeHonoured(last.arg)

----------------------------------------------------------------------------
(* Parsing of source-meter responses *)

\* A source-meter read just got as far as converting its response: the
\* driver was connected and no command faulted.
Converted ==
    /\ Called
    /\ last.op \in {"read_resistance_auto", "read_resistance_configured",
                    "source_voltage_and_read_current", "source_current_and_read_voltage"}
    /\ last.was.connected[last.inst]
    /\ last.resp # << >>
    /\ \A i \in 1..Len(trace) : trace[i].kind # "fault"

\* The call raised a parse error.
RaisedParseError == last.exc.type = "ValueError"

\* The call returned the numbers of the non-empty comma-separated fields.
ReturnedFieldValues ==
    /\ last.exc = NoExc
    /\ Len(last.val) = 1
    /\ last.val[1].v = FloatList(last.resp)

\* The call returned one not-a-number.
ReturnedNaN ==
    /\ last.exc = NoExc
    /\ Len(last.val) = 1
    /\ last.val[1].v = << NaN >>

(* C21 (as claimed): a response is split on commas and each non-empty      *)
(* field parsed as a number; when the payload is non-numeric,              *)
(* read_resistance_auto and the source-and-measure operations fail with a  *)
(* parse error, whereas read_resistance_configured, for every mode         *)
(* argument, returns a single not-a-number instead of raising.             *)
C21_ConfiguredNeverRaises ==
    Converted =>
        IF last.op = "read_resistance_configured"
        THEN IF ParsesAsFloats(last.resp) THEN ReturnedFieldValues ELSE ReturnedNaN
        ELSE IF ParsesAsFloats(last.resp) THEN ReturnedFieldValues ELSE RaisedParseError

(* C21 (amended): read_resistance_auto, the source-and-measure operations  *)
(* and read_resistance_configured with mode "AUTO" (which hands over to    *)
(* read_resistance_auto) split the response on commas, parse each          *)
(* non-empty field and fail with a parse error when a field is not         *)
(* numeric; read_resistance_configured with any other mode parses the      *)
(* whole response as one number and returns a single not-a-number instead  *)
(* of raising whenever that fails, which includes a numeric response of    *)
(* more than one field.                                                    *)
C21_ParseAsymmetry ==
    Converted =>
        IF last.op = "read_resistance_configured" /\ last.mode # "AUTO"
        THEN IF ParsesAsFloat(last.resp)
             THEN last.exc = NoExc /\ last.val[1].v = << FloatOf(last.resp[1]) >>
             ELSE ReturnedNaN
        ELSE IF ParsesAsFloats(last.resp) THEN ReturnedFieldValues ELSE RaisedParseError

\* read_resistance_configured in AUTO mode got a non-numeric response and
\* raised, after switching the output off again.
C21_Witness ==
    /\ Converted
    /\ last.op = "read_resistance_configured"
    /\ last.mode = "AUTO"
    /\ last.resp = << "x" >>
    /\ RaisedParseError

----------------------------------------------------------------------------
(* Malformed sweep parameters *)

\* step = 0, or a step whose sign differs from the sign of stop - start.
Malformed(a) == a.step = 0 \/ (a.stop - a.start) * a.step < 0

\* The sweep is over and nothing but its parameters can have made it fail:
\* every instrument was connected and no command faulted.
EndedOnWorkingInstruments ==
    /\ pc = "done"
    /\ \A i \in Arguments(variant) : connected[i]
    /\ TransportWorked

(* C22: a sweep called with malformed parameters (step = 0, or step whose  *)
(* sign differs from the sign of stop - start) fails with an               *)
(* invalid-configuration error and applies no stimulus; it never returns a *)
(* table for such parameters.                                              *)
C22_MalformedParametersRejected ==
    (variant \in Variants /\ Malformed(args)) =>
        /\ StimulusCalls = << >>
        /\ outcome.kind # "returned"
        /\ EndedOnWorkingInstruments =>
            (outcome.kind = "raised" /\ outcome.exc.type = "ValueError")

----------------------------------------------------------------------------
(* Where the grid ends *)

\* Grid value v lies beyond stop by half a step or more, in the direction of
\* the step (twice the values, so that the half step stays an integer).
BeyondStop(a, v) ==
    IF a.step > 0 THEN 2 * v >= 2 * a.stop + a.step
    ELSE 2 * v <= 2 * a.stop + a.step

\* The range runs from start towards stop in the direction of the step.
Forward(a) ==
    \/ a.step > 0 /\ a.start <= a.stop
    \/ a.step < 0 /\ a.start >= a.stop

(* C24: in every sweep with step > 0 and start <= stop (symmetrically for  *)
(* negative steps) no stimulus value applied to the instrument lies beyond *)
(* stop by half a step or more: every grid value v satisfies               *)
(* v < stop + step/2, also when stop - start is not a whole multiple of    *)
(* step.                                                                   *)
C24_GridWithinHalfStepOfStop ==
    (variant \in Variants /\ Forward(args)) =>
        /\ \A i \in 1..Len(grid) : ~BeyondStop(args, grid[i])
        /\ \A i \in 1..Len(StimulusCalls) : ~BeyondStop(args, StimulusCalls[i].arg)

----------------------------------------------------------------------------
(* Source range against source level *)

\* Positions of the range and of the level writes of the source-and-read
\* calls.
RangeWrites ==
    { i \in 1..Len(trace) :
        trace[i].kind = "write" /\ trace[i].name \in {":SOUR:VOLT:RANG", ":SOUR:CURR:RANG"} }

LevelWrites ==
    { i \in 1..Len(trace) :
        trace[i].kind = "write" /\ trace[i].name \in {":SOUR:VOLT:LEV", ":SOUR:CURR:LEV"} }

\* The range write that belongs to the level write at l: the last one before it.
RangeFor(l) == CHOOSE r \in RangeWrites : r < l /\ \A q \in RangeWrites : q < l => q <= r

(* C25: in the IV and LIV sweeps the source range commanded at each grid   *)
(* point (|stop - start| + |step|) is at least the magnitude of the level  *)
(* commanded at that point, for every valid (start, stop, step), including *)
(* ranges that do not contain zero.                                        *)
C25_RangeCoversLevel ==
    (variant \in Variants /\ variant # "perform_laser_sweep" /\ ValidRange(args)) =>
        \A l \in LevelWrites :
            /\ \E r \in RangeWrites : r < l
            /\ trace[RangeFor(l)].arg = SourceRange(args)
            /\ trace[RangeFor(l)].arg >= Abs(trace[l].arg)

----------------------------------------------------------------------------
(* Output after a resistance read *)

\* One of the resistance reads was just called.
ResistanceRead ==
    Called /\ last.op \in {"read_resistance_auto", "read_resistance_configured"}

(* C26: read_resistance_auto and read_resistance_configured leave the      *)
(* source-meter output disabled on every exit path: whenever either has    *)
(* issued the output-enable write, an output-disable write follows before  *)
(* the operation returns or raises, also when the read query fails with a  *)
(* transport error or the response cannot be parsed.                       *)
C26_ResistanceReadDisablesOutput ==
    ResistanceRead =>
        \A i \in 1..Len(trace) :
            (trace[i].kind = "write" /\ trace[i].name = ":OUTP ON") =>
                \E j \in (i + 1)..Len(trace) :
                    /\ trace[j].kind \in {"write", "fault"}
                    /\ trace[j].name = ":OUTP OFF"

----------------------------------------------------------------------------
(* Sweeps in a row (state machine SpecRepeat) *)

\* No call of the sweep in progress is a close.
NoCloseCalled == \A i \in CallPositions : trace[i].name # "close"

\* The sweep that just ended made exactly one turn_off call, on its primary
\* instrument, as its last call.
EndedWithOneTurnOff ==
    pc = "done" =>
        /\ Cardinality(TurnOffPositions) = 1
        /\ Cardinality(CallsOf(Primary(variant), "turn_off")) = 1
        /\ \A t \in TurnOffPositions : \A p \in CallPositions : p <= t

(* C27: a sweep never calls close on an instrument and never changes any   *)
(* instrument's connected flag (nor its handle), on success and on failure *)
(* alike, so sweeps can be run one after another on the same driver        *)
(* instances, each one again ending with exactly one turn_off.             *)
C27_SweepsLeaveDriversAsTheyWere ==
    /\ [](NoCloseCalled /\ EndedWithOneTurnOff)
    /\ [][connected' = connected /\ main' = main /\ life' = life]_vars

\* A third sweep in a row has returned its table on the same driver
\* objects, with its own single turn_off.
C27_Witness ==
    /\ runs >= 2
    /\ pc = "done"
    /\ outcome.kind = "returned"
    /\ Cardinality(TurnOffPositions) = 1
    /\ connected[Primary(variant)]
----------------------------------------------------------------------------
(* Result table export *)

\* A text is a sequence of characters.  A header of the sweep functions
\* holds no comma and no line break and is kept as one token.
Digits == << "0", "1", "2", "3", "4", "5", "6", "7", "8", "9" >>

IsDigit(c) == \E d \in 1..10 : Digits[d] = c

DigitValue(c) == (CHOOSE d \in 1..10 : Digits[d] = c) - 1

RECURSIVE NatText(_)
NatText(n) ==
    IF n < 10 THEN << Digits[n + 1] >>
    ELSE NatText(n \div 10) \o << Digits[(n % 10) + 1] >>

\* str(x) of a Python or numpy float holding a whole number: "5.0", "-1.0"
FloatText(x) ==
    (IF x < 0 THEN << "-" >> ELSE << >>) \o NatText(IF x < 0 THEN 0 - x ELSE x)
        \o << ".", "0" >>

\* str(a) of a one-dimensional numpy array of whole floats: "[5.]", "[5. 7.]"
RECURSIVE ArrayElements(_)
ArrayElements(a) ==
    IF a = << >> THEN << >>
    ELSE (IF a[1] < 0 THEN << "-" >> ELSE << >>)
             \o NatText(IF a[1] < 0 THEN 0 - a[1] ELSE a[1]) \o << "." >>
             \o (IF Len(a) > 1 THEN << " " >> ELSE << >>) \o ArrayElements(Tail(a))

ArrayText(a) == << "[" >> \o ArrayElements(a) \o << "]" >>

\* str(value) of one cell of a row: grid points and power readings are
\* floats, the source-meter readings are numpy arrays.
Str(value) ==
    IF value.from = "sourcemeter" THEN ArrayText(value.v) ELSE FloatText(value.v)

\* ",".join(texts)
RECURSIVE Join(_)
Join(texts) ==
    IF texts = << >> THEN << >>
    ELSE IF Len(texts) = 1 THEN texts[1]
    ELSE texts[1] \o << "," >> \o Join(Tail(texts))

\* save_raw_measurements(headers, data): the lines written to the file and
\* the returned path; nothing is written when data is empty.
save_raw_measurements(headers, data, old) ==
    IF data = << >>
    THEN [path |-> "", file |-> old]
    ELSE [path |-> "data/raw/sweep_data.csv",
          file |-> [exists |-> TRUE,
                    lines |-> << Join([i \in 1..Len(headers) |-> << headers[i] >>]) >>
                              \o [r \in 1..Len(data) |->
                                    Join([k \in 1..Len(data[r]) |-> Str(data[r][k])])]]]

\* line.split(","): the texts between the commas
RECURSIVE Split(_)
Split(line) ==
    IF \A i \in 1..Len(line) : line[i] # "," THEN << line >>
    ELSE LET c == CHOOSE i \in 1..Len(line) :
                      line[i] = "," /\ \A j \in 1..(i - 1) : line[j] # ","
         IN << SubSeq(line, 1, c - 1) >> \o Split(SubSeq(line, c + 1, Len(line)))

RECURSIVE NatValue(_)
NatValue(ds) ==
    IF ds = << >> THEN 0 ELSE 10 * NatValue(SubSeq(ds, 1, Len(ds) - 1)) + DigitValue(ds[Len(ds)])

RECURSIVE StripZeros(_)
StripZeros(ds) ==
    IF ds # << >> /\ ds[Len(ds)] = "0" THEN StripZeros(SubSeq(ds, 1, Len(ds) - 1)) ELSE ds

\* float(text): an optional sign, digits, at most one point.  The result
\* gives the whole part and the fraction digits that are left once the
\* trailing zeros are dropped; ok is FALSE where float raises ValueError.
Float(text) ==
    LET neg == text # << >> /\ text[1] = "-"
        u == IF neg THEN Tail(text) ELSE text
        dots == {i \in 1..Len(u) : u[i] = "."}
        dot == IF dots = {} THEN Len(u) + 1 ELSE CHOOSE i \in dots : TRUE
        whole == SubSeq(u, 1, dot - 1)
        frac == SubSeq(u, dot + 1, Len(u))
    IN IF /\ Cardinality(dots) <= 1
          /\ \A i \in 1..Len(u) : i \in dots \/ IsDigit(u[i])
          /\ Len(whole) + Len(frac) > 0
       THEN [ok |-> TRUE, v |-> (IF neg THEN 0 - NatValue(whole) ELSE NatValue(whole)),
             frac |-> StripZeros(frac), text |-> text]
       ELSE [ok |-> FALSE, v |-> 0, frac |-> << >>, text |-> text]

\* Reading the file back: the first line is the headers, every later line a
\* row whose cells are converted with float.
ReadBack(f) ==
    IF ~f.exists \/ f.lines = << >> THEN NoParse
    ELSE [found |-> TRUE,
          headers |-> Split(f.lines[1]),
          rows |-> [r \in 1..(Len(f.lines) - 1) |->
                      LET cells == Split(f.lines[r + 1])
                      IN [k \in 1..Len(cells) |-> Float(cells[k])]]]

\* Largest number of rows of a table drawn for the export
MaxRows == 2

\* The values a source-meter read can return (FloatList of a response).
ReadArrays == { FloatList(resp) : resp \in {r \in SourceMeterResponses : ParsesAsFloats(r)} }

PowerValues == { FloatOf(resp[1]) : resp \in {r \in PowerResponses : ParsesAsFloat(r)} }

\* The rows a sweep function can append at one grid point.
RowsOf(v) ==
    LET meter == IF v = "measure_laser_liv_curve_by_source_current" THEN "Voltage" ELSE "Current"
    IN IF v = "perform_laser_sweep"
       THEN { Row(v, g, << Field("Power", "laser", p) >>) : g \in Vals, p \in PowerValues }
       ELSE IF v = "measure_iv_curve"
       THEN { Row(v, g, << Field(meter, "sourcemeter", a) >>) : g \in Vals, a \in ReadArrays }
       ELSE { Row(v, g, << Field(meter, "sourcemeter", a), Field("Power", "powermeter", p) >>) :
                  g \in Vals, a \in ReadArrays, p \in PowerValues }

\* The tables sweep function v can return, up to MaxRows rows.
Tables(v) ==
    { [headers |-> Headers(v), rows |-> rows] :
        rows \in UNION { [1..n -> RowsOf(v)] : n \in 0..MaxRows } }

\* A caller holds a table returned by a sweep.
InitCsv ==
    /\ connected = [i \in Insts |-> TRUE]
    /\ output = [i \in Insts |-> FALSE]
    /\ pc = "table"
    /\ variant \in Variants
    /\ args = NoArgs
    /\ ip = 1
    /\ grid = << >>
    /\ idx = 1
    /\ reads = << >>
    /\ results = << >>
    /\ exc = NoExc
    /\ ret \in Tables(variant)
    /\ outcome = [kind |-> "return", exc |-> NoExc, table |-> ret]
    /\ trace = << >>
    /\ main = [i \in Insts |-> "open"]
    /\ rm = [i \in Insts |-> "injected"]
    /\ owns_rm = [i \in Insts |-> FALSE]
    /\ rmOpen = [m \in ResourceManagers |-> m = "injected"]
    /\ life = [i \in Insts |-> "constructed"]
    /\ last = NoCall
    /\ runs = 1
    /\ file = NoFile
    /\ saved = "None"
    /\ parsed = NoParse

\* save_raw_measurements(headers, results)
Save ==
    /\ pc = "table"
    /\ pc' = "saved"
    /\ LET w == save_raw_measurements(ret.headers, ret.rows, file)
       IN /\ file' = w.file
          /\ saved' = w.path
    /\ UNCHANGED <<connected, output, trace, parsed>>
    /\ UNCHANGED sweepData
    /\ UNCHANGED driverVars

\* The written text is read back.
Reparse ==
    /\ pc = "saved"
    /\ pc' = "parsed"
    /\ parsed' = ReadBack(file)
    /\ UNCHANGED <<connected, output, trace, file, saved>>
    /\ UNCHANGED sweepData
    /\ UNCHANGED driverVars

NextCsv ==
    \/ Save
    \/ Reparse

SpecCsv == InitCsv /\ [][NextCsv]_vars

(* C23 *)

\* The cell read back is the number that was written.
SameCell(p, c) == p.ok /\ c.from # "sourcemeter" /\ p.frac = << >> /\ p.v = c.v

\* The table read back has the headers and the rows of the table in memory.
SameTable(p, t) ==
    /\ p.found
    /\ p.headers = [i \in 1..Len(t.headers) |-> << t.headers[i] >>]
    /\ Len(p.rows) = Len(t.rows)
    /\ \A r \in 1..Len(t.rows) :
         /\ Len(p.rows[r]) = Len(t.rows[r])
         /\ \A k \in 1..Len(t.rows[r]) : SameCell(p.rows[r][k], t.rows[r][k])

\* C23: every result table, a table with zero rows included, that is written
\* with save_raw_measurements and read back from the written text gives the
\* same headers and the same rows in the same order.
C23_ExportRoundTrip == pc = "parsed" => SameTable(parsed, ret)
============================================================================
